---- MODULE Spec2Model ----
(***************************************************************************)
(* The OpenPayClient of src/src/openpay-client.ts as a state machine.      *)
(*                                                                         *)
(* JavaScript runs one macrotask (a timer callback, a script load event,   *)
(* a vendor callback, a handler of the page) to completion and then drains *)
(* the microtask queue (the continuations of settled promises).  Every     *)
(* call of an async method of the client is a task of the model; a task's  *)
(* pc is the await it is suspended at.  An action is one event together    *)
(* with the run of initializeWithRetry it resumes, up to the next await of *)
(* an event; the continuation of the caller of initializeWithRetry is a    *)
(* step of its own (Resume), and cleanup() may come before it, since the   *)
(* page's code can be a continuation too.                                  *)
(***************************************************************************)
EXTENDS Integers, Sequences, FiniteSets, TLC

\* Number of async calls of the client that can be live at once.
MaxTasks == 2

\* openpay-client.ts:14
maxRetries == 3

Tasks == 1..MaxTasks

CoreScript == "https://js.openpay.pe/openpay.v1.min.js"
DataScript == "https://js.openpay.pe/openpay-data.v1.min.js"
OPENPAY_SCRIPTS == {CoreScript, DataScript}

\* Values the vendor can hand back.
SessionIds == {"sidA", "sidB"}
TokenValues == {"tokA", "tokB"}
VendorErrors == {"verrA", "verrB"}

NoError == "none"
ErrNotLoaded == "OpenPay not loaded"
ErrSession == "Failed to setup device session"
LoadError(src) == IF src = CoreScript THEN "Failed to load script: core"
                                      ELSE "Failed to load script: data"

\* What a task is a call of.  "awaiting" is a caller operation suspended at
\* `await this.ensureInitialized()`: createToken, createTokenFromForm or one
\* of the validators (validateNumber, validateCVC, validateExpiry, getType,
\* validateCard), which all start with that line; which one it is shows when
\* the await returns.
TokenKinds == {"createToken", "createTokenFromForm"}
AwaitingKinds == TokenKinds \cup {"validate"}

VARIABLES
    initialized,          \* this.initialized
    deviceSessionId,      \* this.deviceSessionId
    retryTimeout,         \* "pending" while the timer of scheduleRetry is armed
    healthCheckInterval,  \* "active" until clearInterval
    dom,                  \* number of script tags in the document, per src
    windowOpenPay,        \* window.OpenPay is defined
    deviceData,           \* window.OpenPay.deviceData is defined
    orphan,               \* srcs with a load in flight that no promise awaits
    env,                  \* "flaky": loads and device setup may fail; "good"
    escaped,              \* an error of initialize() reached its caller
    last,                 \* the promise of the caller operation that finished last
    task,                 \* the async calls in progress, per slot
    fn                    \* the synchronous call made last: its arguments, its result

vars == <<initialized, deviceSessionId, retryTimeout, healthCheckInterval,
          dom, windowOpenPay, deviceData, orphan, env, escaped, last, task, fn>>

clientVars == <<initialized, deviceSessionId, retryTimeout, healthCheckInterval>>
worldVars == <<windowOpenPay, deviceData, orphan, env>>

NoLoads == [s \in OPENPAY_SCRIPTS |-> "na"]

IdleTask ==
    [kind |-> "none", pc |-> "idle", retryCount |-> 0, lastError |-> NoError,
     load |-> NoLoads, sessionId |-> "", res |-> "none", attempts |-> 0,
     attemptError |-> NoError, calls |-> 0]

\* A promise handed to a caller: how it settled, with what, and what the vendor
\* passed to the callbacks (calls: invocations of the vendor's tokenization).
NoPromise ==
    [kind |-> "none", settled |-> "pending", value |-> "", calls |-> 0,
     callbacks |-> 0, vendorArg |-> ""]

Promise(tr) == [NoPromise EXCEPT !.kind = tr.kind, !.calls = tr.calls]

\* The page makes no synchronous call.
NoCall == [op |-> "none"]

NotReady == ~initialized \/ deviceSessionId = ""
Ready == initialized /\ deviceSessionId # ""

-----------------------------------------------------------------------------
\* loadScript / loadScripts

TagPresentNever(d, src) == FALSE

\* document.querySelector(`script[src="${src}"]`)
TagPresent(d, src) == d[src] > 0

loadScript(d, src) ==
    IF TagPresent(d, src)
    THEN [dom |-> d, promise |-> "ok"]
    ELSE [dom |-> [d EXCEPT ![src] = @ + 1], promise |-> "wait"]

loadScripts(d) ==
    [dom |-> [s \in OPENPAY_SCRIPTS |-> loadScript(d, s).dom[s]],
     load |-> [s \in OPENPAY_SCRIPTS |-> loadScript(d, s).promise]]

\* Promise.all: rejected by the first rejection, fulfilled when all are.
AllRejected(l) == \E s \in OPENPAY_SCRIPTS : l[s] = "fail"
AllFulfilled(l) == \A s \in OPENPAY_SCRIPTS : l[s] = "ok"
AllSettled(l) == AllRejected(l) \/ AllFulfilled(l)

-----------------------------------------------------------------------------
\* initializeWithRetry

silent(k) == FALSE

WhileCondOffByOne(rc) == rc <= maxRetries

WhileCond(rc) == rc < maxRetries

BackoffCond(rc) == rc < maxRetries

CatchFirstError(old, err) == IF old = NoError THEN err ELSE old

CatchError(old, err) == err

beginAttempt(tr, d) ==
    [task |-> [tr EXCEPT !.pc = "loading", !.load = loadScripts(d).load,
                         !.attempts = @ + 1],
     dom |-> loadScripts(d).dom]

loopExit(tr) ==
    IF silent(tr.kind)
    THEN [tr EXCEPT !.pc = "resume", !.res = "ok", !.load = NoLoads]
    ELSE [tr EXCEPT !.pc = "resume", !.res = "err", !.load = NoLoads]

loopTop(tr, d) ==
    IF WhileCond(tr.retryCount)
    THEN beginAttempt(tr, d)
    ELSE [task |-> loopExit(tr), dom |-> d]

catchBlock(tr, err, d) ==
    LET rc == tr.retryCount + 1
        caught == [tr EXCEPT !.lastError = CatchError(tr.lastError, err),
                             !.attemptError = err, !.retryCount = rc,
                             !.load = NoLoads]
    IN IF BackoffCond(rc)
       THEN [task |-> [caught EXCEPT !.pc = "backoff"], dom |-> d]
       ELSE loopTop(caught, d)

\* return: the frame of initializeWithRetry is gone.
initSuccess(tr) == [IdleTask EXCEPT !.kind = tr.kind, !.pc = "resume", !.res = "ok"]

\* window.OpenPay.deviceData.setup as seen through setupDeviceSession: null
\* when the call throws (deviceData undefined) or returns an empty id.
setupDeviceSession(dd) ==
    IF ~dd THEN {""}
    ELSE IF env = "good" THEN SessionIds
    ELSE SessionIds \cup {""}

SessionMissingNever(sid) == FALSE

SessionMissingInverted(sid) == sid # ""

SessionMissing(sid) == sid = ""

\* Where a run of a task stops: the task, the document, the loads it no
\* longer awaits, and the session it stored (ready) if it did.
Outcome(tr, d, orph, rdy, sid) ==
    [task |-> tr, dom |-> d, orphaned |-> orph, ready |-> rdy, sid |-> sid]

\* The task runs from `await this.loadScripts()` until it next waits for an
\* event (a script, the backoff timer) or initializeWithRetry is over.
\* wop, dd: window.OpenPay and window.OpenPay.deviceData are defined.
RECURSIVE run(_, _, _, _)
run(tr, d, wop, dd) ==
    IF tr.pc # "loading" \/ ~AllSettled(tr.load)
    THEN {Outcome(tr, d, {}, FALSE, "")}
    ELSE IF AllRejected(tr.load)
    THEN LET src == CHOOSE s \in OPENPAY_SCRIPTS : tr.load[s] = "fail"
             c == catchBlock(tr, LoadError(src), d)
             w == {s \in OPENPAY_SCRIPTS : tr.load[s] = "wait"}
         IN {[o EXCEPT !.orphaned = @ \cup w] : o \in run(c.task, c.dom, wop, dd)}
    ELSE IF ~wop
    THEN LET c == catchBlock(tr, ErrNotLoaded, d)
         IN run(c.task, c.dom, wop, dd)
    ELSE UNION {IF SessionMissing(sid)
                THEN LET c == catchBlock(tr, ErrSession, d)
                     IN run(c.task, c.dom, wop, dd)
                ELSE {Outcome(initSuccess(tr), d, {}, TRUE, sid)}
                : sid \in setupDeviceSession(dd)}

\* A task is inside the retry loop of initializeWithRetry.
InLoop(tr) == tr.pc \in {"loading", "backoff"}

\* The continuation of the caller of initializeWithRetry is queued.
MicroReady(tr) == tr.pc = "resume"

\* The microtask queue is empty: no continuation of the client is ready and
\* the caller has taken the result of the promise that settled last.
NoMicrotask ==
    /\ \A t \in Tasks : ~MicroReady(task[t])
    /\ last.settled = "pending"

Idle(t) == task[t].pc = "idle"
HasFree == \E t \in Tasks : Idle(t)
FreeSlot == CHOOSE t \in Tasks : Idle(t) /\ \A u \in Tasks : u < t => ~Idle(u)

\* initialize(): initializeWithRetry() with no readiness test.
startInitialize(d) == loopTop([IdleTask EXCEPT !.kind = "initialize"], d)

ensureInitializedAlways(k, d, notReady) == loopTop([IdleTask EXCEPT !.kind = k], d)

\* ensureInitialized(): initializeWithRetry(false) unless ready.
ensureInitialized(k, d, notReady) ==
    IF notReady
    THEN loopTop([IdleTask EXCEPT !.kind = k], d)
    ELSE [task |-> [IdleTask EXCEPT !.kind = k, !.pc = "resume", !.res = "ok"],
          dom |-> d]

\* The state after task t has run to outcome o.
Apply(t, o) ==
    /\ task' = [task EXCEPT ![t] = o.task]
    /\ dom' = o.dom
    /\ orphan' = orphan \cup o.orphaned
    /\ IF o.ready
       THEN initialized' = TRUE /\ deviceSessionId' = o.sid
       ELSE UNCHANGED <<initialized, deviceSessionId>>

-----------------------------------------------------------------------------
\* new OpenPayClient(config): initialize() up to its first await, then
\* startHealthCheck().
InitEnv(e) ==
    /\ initialized = FALSE
    /\ deviceSessionId = ""
    /\ retryTimeout = "none"
    /\ healthCheckInterval = "active"
    /\ windowOpenPay = FALSE
    /\ deviceData = FALSE
    /\ orphan = {}
    /\ env = e
    /\ escaped = FALSE
    /\ last = NoPromise
    /\ LET c == startInitialize([s \in OPENPAY_SCRIPTS |-> 0])
       IN /\ dom = c.dom
          /\ task = [t \in Tasks |-> IF t = 1 THEN c.task ELSE IdleTask]

Init == InitEnv("flaky") /\ fn = NoCall

\* The client is constructed where scripts load and the vendor answers.
InitGood == InitEnv("good") /\ fn = NoCall

-----------------------------------------------------------------------------
\* Script events

\* script.onload: the script has run and defined its part of window.OpenPay.
ScriptLoaded(t, s) ==
    /\ NoMicrotask
    /\ task[t].pc = "loading"
    /\ task[t].load[s] = "wait"
    /\ windowOpenPay' = (windowOpenPay \/ s = CoreScript)
    /\ deviceData' = (deviceData \/ s = DataScript)
    /\ \E o \in run([task[t] EXCEPT !.load[s] = "ok"], dom,
                    windowOpenPay \/ s = CoreScript, deviceData \/ s = DataScript) :
          Apply(t, o)
    /\ UNCHANGED <<retryTimeout, healthCheckInterval, env, escaped, fn, last>>

\* script.onerror
ScriptFailed(t, s) ==
    /\ NoMicrotask
    /\ env = "flaky"
    /\ task[t].pc = "loading"
    /\ task[t].load[s] = "wait"
    /\ \E o \in run([task[t] EXCEPT !.load[s] = "fail"], dom,
                    windowOpenPay, deviceData) :
          Apply(t, o)
    /\ UNCHANGED <<retryTimeout, healthCheckInterval, windowOpenPay, deviceData,
                   env, escaped, fn, last>>

\* A load whose promise nobody awaits any more completes.
OrphanLoaded(s) ==
    /\ NoMicrotask
    /\ s \in orphan
    /\ orphan' = orphan \ {s}
    /\ windowOpenPay' = (windowOpenPay \/ s = CoreScript)
    /\ deviceData' = (deviceData \/ s = DataScript)
    /\ UNCHANGED <<clientVars, dom, env, escaped, fn, last, task>>

OrphanFailed(s) ==
    /\ NoMicrotask
    /\ env = "flaky"
    /\ s \in orphan
    /\ orphan' = orphan \ {s}
    /\ UNCHANGED <<clientVars, dom, windowOpenPay, deviceData, env, escaped, fn,
                   last, task>>

-----------------------------------------------------------------------------
\* Timers

\* The setTimeout of the backoff fires and the loop goes round again.
BackoffElapsed(t) ==
    /\ NoMicrotask
    /\ task[t].pc = "backoff"
    /\ LET c == loopTop(task[t], dom)
       IN \E o \in run(c.task, c.dom, windowOpenPay, deviceData) : Apply(t, o)
    /\ UNCHANGED <<retryTimeout, healthCheckInterval, windowOpenPay, deviceData,
                   env, escaped, fn, last>>

\* The timer of scheduleRetry fires: initialize().
RetryTimerFires ==
    /\ NoMicrotask
    /\ retryTimeout = "pending"
    /\ HasFree
    /\ retryTimeout' = "none"
    /\ LET c == startInitialize(dom)
       IN \E o \in run(c.task, c.dom, windowOpenPay, deviceData) :
             Apply(FreeSlot, o)
    /\ UNCHANGED <<healthCheckInterval, windowOpenPay, deviceData, env, escaped, fn,
                   last>>

HealthCheckCond == NotReady

IntervalNeverCleared(h) == TRUE

\* The interval of startHealthCheck ticks until clearInterval.
IntervalTicks(h) == h = "active"

\* The setInterval callback of startHealthCheck.
HealthCheckTick ==
    /\ NoMicrotask
    /\ IntervalTicks(healthCheckInterval)
    /\ IF HealthCheckCond
       THEN /\ HasFree
            /\ LET c == startInitialize(dom)
               IN \E o \in run(c.task, c.dom, windowOpenPay, deviceData) :
                     Apply(FreeSlot, o)
       ELSE UNCHANGED <<task, dom, orphan, initialized, deviceSessionId>>
    /\ UNCHANGED <<retryTimeout, healthCheckInterval, windowOpenPay, deviceData,
                   env, escaped, fn, last>>

-----------------------------------------------------------------------------
\* Continuations of the callers of initializeWithRetry

\* The promise of a caller operation settles once.
settle(p, how, v) ==
    IF p.settled = "pending"
    THEN [p EXCEPT !.settled = how, !.value = v]
    ELSE p

initializeRethrows == FALSE

\* initialize(): the catch swallows the error and calls scheduleRetry().
initializeCatches == TRUE

EnsureNeverThrows(res) == FALSE

\* `await this.ensureInitialized()` throws what initializeWithRetry threw.
EnsureThrows(res) == res = "err"

onVendorErrorWrapped(e) == "TokenizationError"

\* (error) => reject(error)
onVendorError(e) == e

\* `await this.ensureInitialized()` throws: the operation rejects.
rethrow(tr, k) == settle([Promise(tr) EXCEPT !.kind = k], "rejected", tr.lastError)

\* initialize() after `await this.initializeWithRetry()`.
ResumeInitialize(t) ==
    LET tr == task[t] IN
    /\ tr.pc = "resume"
    /\ tr.kind = "initialize"
    /\ task' = [task EXCEPT ![t] = IdleTask]
    /\ IF tr.res = "err"
       THEN IF initializeCatches
            THEN retryTimeout' = "pending" /\ UNCHANGED escaped
            ELSE escaped' = TRUE /\ UNCHANGED retryTimeout
       ELSE UNCHANGED <<retryTimeout, escaped>>
    /\ UNCHANGED <<initialized, deviceSessionId, healthCheckInterval, dom,
                   worldVars, last, fn>>

\* validateField has returned long ago: nobody awaits its ensureInitialized().
ResumeValidateField(t) ==
    /\ task[t].pc = "resume"
    /\ task[t].kind = "validateField"
    /\ task' = [task EXCEPT ![t] = IdleTask]
    /\ UNCHANGED <<clientVars, dom, worldVars, escaped, fn, last>>

\* createToken / createTokenFromForm / a validator after
\* `await this.ensureInitialized()`: k is the operation.
ResumeAwaiting(t, k) ==
    LET tr == task[t] IN
    /\ tr.pc = "resume"
    /\ tr.kind = "awaiting"
    /\ IF EnsureThrows(tr.res)
       THEN /\ task' = [task EXCEPT ![t] = IdleTask]
            /\ last' = rethrow(tr, k)
       ELSE IF k \in TokenKinds
       THEN /\ task' = [task EXCEPT ![t] = [tr EXCEPT !.kind = k,
                                                      !.pc = "tokenizing",
                                                      !.calls = @ + 1]]
            /\ UNCHANGED last
       ELSE /\ task' = [task EXCEPT ![t] = IdleTask]
            /\ last' = settle([Promise(tr) EXCEPT !.kind = k], "resolved", "validation")
    /\ UNCHANGED <<clientVars, dom, worldVars, escaped, fn>>

\* The continuation of the caller takes the settled promise's result.
CallerResumes ==
    /\ last.settled # "pending"
    /\ last' = NoPromise
    /\ UNCHANGED <<clientVars, dom, worldVars, escaped, fn, task>>

-----------------------------------------------------------------------------
\* The vendor's callbacks

\* The vendor calls the success callback of token.create.
VendorSuccess(t, v) ==
    /\ NoMicrotask
    /\ task[t].pc = "tokenizing"
    /\ task' = [task EXCEPT ![t] = IdleTask]
    /\ last' = [settle(Promise(task[t]), "resolved", v) EXCEPT
                    !.callbacks = 1, !.vendorArg = v]
    /\ UNCHANGED <<clientVars, dom, worldVars, escaped, fn>>

\* The vendor calls the error callback of token.create.
VendorError(t, e) ==
    /\ NoMicrotask
    /\ task[t].pc = "tokenizing"
    /\ task' = [task EXCEPT ![t] = IdleTask]
    /\ last' = [settle(Promise(task[t]), "rejected", onVendorError(e)) EXCEPT
                    !.callbacks = 1, !.vendorArg = e]
    /\ UNCHANGED <<clientVars, dom, worldVars, escaped, fn>>

\* The vendor calls one of the two callbacks a second time.
VendorCallsAgain(how, v) ==
    /\ \A t \in Tasks : ~MicroReady(task[t])
    /\ last.callbacks = 1
    /\ last' = [settle(last, how, v) EXCEPT !.callbacks = 2]
    /\ UNCHANGED <<clientVars, dom, worldVars, escaped, fn, task>>

\* The network and the vendor recover for good.
EnvRecovers ==
    /\ NoMicrotask
    /\ env = "flaky"
    /\ env' = "good"
    /\ UNCHANGED <<clientVars, dom, windowOpenPay, deviceData, orphan, escaped, fn,
                   last, task>>

-----------------------------------------------------------------------------
\* Caller operations

\* createToken, createTokenFromForm or an awaiting validator is called.
Call ==
    /\ NoMicrotask
    /\ HasFree
    /\ LET c == ensureInitialized("awaiting", dom, NotReady)
       IN \E o \in run(c.task, c.dom, windowOpenPay, deviceData) :
             Apply(FreeSlot, o)
    /\ UNCHANGED <<retryTimeout, healthCheckInterval, windowOpenPay, deviceData,
                   env, escaped, fn, last>>

\* The ensureInitialized() that validateField calls and does not await.
validateFieldStarts ==
    /\ NoMicrotask
    /\ IF NotReady
       THEN /\ HasFree
            /\ LET c == ensureInitialized("validateField", dom, TRUE)
               IN \E o \in run(c.task, c.dom, windowOpenPay, deviceData) :
                     Apply(FreeSlot, o)
       ELSE UNCHANGED <<task, dom, orphan, initialized, deviceSessionId>>
    /\ UNCHANGED <<retryTimeout, healthCheckInterval, windowOpenPay, deviceData,
                   env, escaped, last>>

\* card.fields.validateField, its result left to the page.
ValidateField ==
    /\ validateFieldStarts
    /\ UNCHANGED fn

\* The fields of the client and the document, as cleanup() sees them.
ClientState ==
    [initialized |-> initialized, deviceSessionId |-> deviceSessionId,
     retryTimeout |-> retryTimeout, healthCheckInterval |-> healthCheckInterval,
     dom |-> dom]

\* querySelectorAll('script[src*="openpay.pe"]') + remove(): both srcs of
\* OPENPAY_SCRIPTS contain the vendor domain.
removeVendorScripts(d) == [s \in OPENPAY_SCRIPTS |-> 0]

\* clearTimeout: the timer, if armed, will not fire.
clearTimeout(h) == "none"

clearIntervalToggles(h) == IF h = "active" THEN "cleared" ELSE "active"

\* clearInterval: the interval, if active, ticks no more.
clearInterval(h) == "cleared"

cleanupSessionKept == deviceSessionId

cleanupSession == ""

\* cleanup() as a function of the state it is called in.
cleanup(s) ==
    [initialized |-> FALSE, deviceSessionId |-> cleanupSession,
     retryTimeout |-> clearTimeout(s.retryTimeout),
     healthCheckInterval |-> clearInterval(s.healthCheckInterval),
     dom |-> removeVendorScripts(s.dom)]

Cleanup ==
    /\ last.settled = "pending"
    /\ LET c == cleanup(ClientState)
       IN /\ retryTimeout' = c.retryTimeout
          /\ healthCheckInterval' = c.healthCheckInterval
          /\ dom' = c.dom
          /\ initialized' = c.initialized
          /\ deviceSessionId' = c.deviceSessionId
    /\ UNCHANGED <<worldVars, escaped, fn, last, task>>

-----------------------------------------------------------------------------
Microtask ==
    \/ \E t \in Tasks : ResumeInitialize(t)
    \/ \E t \in Tasks : ResumeValidateField(t)
    \/ \E t \in Tasks, k \in AwaitingKinds : ResumeAwaiting(t, k)
    \/ CallerResumes

ScriptEvent ==
    \/ \E t \in Tasks, s \in OPENPAY_SCRIPTS : ScriptLoaded(t, s)
    \/ \E t \in Tasks, s \in OPENPAY_SCRIPTS : ScriptFailed(t, s)
    \/ \E s \in OPENPAY_SCRIPTS : OrphanLoaded(s)
    \/ \E s \in OPENPAY_SCRIPTS : OrphanFailed(s)

TimerEvent ==
    \/ \E t \in Tasks : BackoffElapsed(t)
    \/ RetryTimerFires
    \/ HealthCheckTick

VendorEvent ==
    \/ \E t \in Tasks, v \in TokenValues : VendorSuccess(t, v)
    \/ \E t \in Tasks, e \in VendorErrors : VendorError(t, e)
    \/ \E v \in TokenValues : VendorCallsAgain("resolved", v)
    \/ \E e \in VendorErrors : VendorCallsAgain("rejected", e)

CallerOp ==
    \/ Call
    \/ ValidateField
    \/ Cleanup

Next ==
    \/ Microtask
    \/ ScriptEvent
    \/ TimerEvent
    \/ VendorEvent
    \/ CallerOp

Spec == Init /\ [][Next]_vars

\* The client left to itself: no caller operation, no cleanup(); the network
\* and the vendor may recover.  Every script load settles, every timer fires,
\* every continuation runs.
NextHeal ==
    \/ \E t \in Tasks : ResumeInitialize(t)
    \/ ScriptEvent
    \/ TimerEvent
    \/ EnvRecovers

HealFairness ==
    /\ \A t \in Tasks : WF_vars(ResumeInitialize(t))
    /\ \A t \in Tasks : WF_vars(BackoffElapsed(t))
    /\ \A t \in Tasks, s \in OPENPAY_SCRIPTS :
          WF_vars(ScriptLoaded(t, s) \/ ScriptFailed(t, s))
    /\ WF_vars(RetryTimerFires)
    /\ WF_vars(HealthCheckTick)

SpecHeal == Init /\ [][NextHeal]_vars /\ HealFairness

\* A client constructed where scripts load, device setup answers and the
\* vendor calls the success callback; callers create tokens.
NextGood ==
    \/ \E t \in Tasks : ResumeInitialize(t)
    \/ \E t \in Tasks, k \in TokenKinds : ResumeAwaiting(t, k)
    \/ CallerResumes
    \/ \E t \in Tasks, s \in OPENPAY_SCRIPTS : ScriptLoaded(t, s)
    \/ TimerEvent
    \/ \E t \in Tasks, v \in TokenValues : VendorSuccess(t, v)
    \/ \E v \in TokenValues : VendorCallsAgain("resolved", v)
    \/ \E e \in VendorErrors : VendorCallsAgain("rejected", e)
    \/ Call

SpecGood == InitGood /\ [][NextGood]_vars

-----------------------------------------------------------------------------
\* Synchronous results.  A string of the program is a sequence of characters.

Digit == {"0", "1", "2", "3", "4", "5", "6", "7", "8", "9"}

\* [a-zA-Z]
Letter ==
    {"a", "b", "c", "d", "e", "f", "g", "h", "i", "j", "k", "l", "m", "n", "o",
     "p", "q", "r", "s", "t", "u", "v", "w", "x", "y", "z",
     "A", "B", "C", "D", "E", "F", "G", "H", "I", "J", "K", "L", "M", "N", "O",
     "P", "Q", "R", "S", "T", "U", "V", "W", "X", "Y", "Z"}

\* \s
Whitespace == {" "}

RECURSIVE trimStart(_)
trimStart(s) ==
    IF s # <<>> /\ Head(s) \in Whitespace THEN trimStart(Tail(s)) ELSE s

RECURSIVE trimEnd(_)
trimEnd(s) ==
    IF s # <<>> /\ s[Len(s)] \in Whitespace
    THEN trimEnd(SubSeq(s, 1, Len(s) - 1))
    ELSE s

trimNothing(s) == s

\* name.trim()
trim(s) == trimEnd(trimStart(s))

\* /^[a-zA-Z\s]+$/
LettersAndSpaces(s) ==
    /\ s # <<>>
    /\ \A i \in 1..Len(s) : s[i] \in Letter \cup Whitespace

validateHolderName(name) ==
    /\ name # <<>>
    /\ Len(trim(name)) >= 3
    /\ LettersAndSpaces(name)

\* What the vendor's card functions answer: validateCardNumber, validateCVC,
\* validateExpiry, and cardType ("" for a value that is no non-empty string,
\* "throws" when the call throws).
SdkCardTypes == {"visa", "american_express", "", "throws"}
SdkAnswers ==
    [number : BOOLEAN, cvc : BOOLEAN, expiry : BOOLEAN, cardType : SdkCardTypes]

getCardTypeSyncNoCatch(init, sdk) ==
    IF ~init THEN "unknown"
    ELSE IF sdk.cardType = "" THEN "unknown"
    ELSE sdk.cardType

\* The try / catch of getCardTypeSync: a throw of the vendor's cardType is
\* caught; "throws" as a result stands for an exception that got out.
getCardTypeSync(init, sdk) ==
    IF ~init THEN "unknown"
    ELSE IF sdk.cardType \in {"", "throws"} THEN "unknown"
    ELSE sdk.cardType

sdkValidUnguarded(init, answer) == answer

\* this.initialized && window.OpenPay.card.validate...(...)
sdkValid(init, answer) == init /\ answer

FieldStatus(isValid, cardType, message, value) ==
    [isValid |-> isValid, cardType |-> cardType, message |-> message,
     isDirty |-> TRUE, value |-> value]

\* The return value of card.fields.validateField(fieldName, value, cardNumber).
validateField(init, sdk, fieldName, value, cardNumber) ==
    CASE fieldName = "card_number" ->
           LET isValid == sdkValid(init, sdk.number)
               cardType == getCardTypeSync(init, sdk)
           IN FieldStatus(isValid, cardType,
                  IF isValid THEN "Valid " \o cardType \o " card"
                  ELSE IF Len(value) > 0 THEN "Invalid card number" ELSE "",
                  value)
      [] fieldName = "cvv2" ->
           LET isValid == sdkValid(init, sdk.cvc)
               cardType == IF cardNumber # <<>> THEN getCardTypeSync(init, sdk)
                                                ELSE "undefined"
           IN FieldStatus(isValid, cardType,
                  IF isValid THEN "Valid CVV"
                  ELSE IF Len(value) > 0
                  THEN "Invalid CVV ("
                       \o (IF cardType = "american_express" THEN "4" ELSE "3")
                       \o " digits required)"
                  ELSE "",
                  value)
      [] fieldName = "holder_name" ->
           LET isValid == validateHolderName(value)
           IN FieldStatus(isValid, "undefined",
                  IF isValid THEN "Valid name"
                  ELSE IF Len(value) > 0
                  THEN "Name must contain only letters and spaces (min 3 characters)"
                  ELSE "",
                  value)
      [] fieldName \in {"expiration_month", "expiration_year"} ->
           LET month == IF fieldName = "expiration_month" THEN value ELSE cardNumber
               year == IF fieldName = "expiration_year" THEN value ELSE cardNumber
               isValid == sdkValid(init, sdk.expiry)
           IN FieldStatus(isValid, "undefined",
                  IF isValid THEN "Valid expiration date"
                  ELSE IF Len(month) > 0 /\ Len(year) > 0
                  THEN "Invalid expiration date"
                  ELSE "",
                  value)
      [] OTHER -> FieldStatus(FALSE, "undefined", "Invalid field", value)

\* keyof Card
FieldNames ==
    {"card_number", "cvv2", "holder_name", "expiration_month",
     "expiration_year", "address"}

SdkFields == {"card_number", "cvv2", "expiration_month", "expiration_year"}

\* What the page passes as value and as third argument (<<>>: "" or nothing).
FieldValues ==
    {<<>>, <<"4", "1", "1", "1">>, <<"1", "2">>, <<"J", "o">>,
     <<"A", "n", "a", " ", "L", "i">>, <<" ", "a", "b", " ">>, <<"a", "1", "c">>,
     <<" ", " ", " ">>, <<"a", "b", "c">>, <<"a", " ", " ">>, <<"A", "n", "-", "a">>}
AuxValues == {<<>>, <<"2", "9">>, <<"3", "7", "8", "2">>}

\* card.fields.validateField returns to the page.
ValidateFieldReturns ==
    /\ fn.op = "validateField"
    /\ ~fn.done
    /\ validateFieldStarts
    /\ fn' = [op |-> "validateField", done |-> TRUE, initialized |-> initialized,
              fieldName |-> fn.fieldName, value |-> fn.value, aux |-> fn.aux,
              sdk |-> fn.sdk,
              out |-> validateField(initialized, fn.sdk, fn.fieldName, fn.value,
                                    fn.aux)]

allValidButName(number, cvv, expiry, holderName) == number /\ cvv /\ expiry

\* isCardNumberValid && isCvvValid && isExpiryValid && isHolderNameValid
allValid(number, cvv, expiry, holderName) == number /\ cvv /\ expiry /\ holderName

\* errors.<field> = true, set only when the check failed.
errorFlag(ok) == ~ok

\* What card.validateCard(card) resolves with on a client that is ready, and
\* the checks it has evaluated, in order.
validateCard(sdk, holderName) ==
    LET isCardNumberValid == sdk.number
        cardType == sdk.cardType
        isCvvValid == sdk.cvc
        isExpiryValid == sdk.expiry
        isHolderNameValid == validateHolderName(holderName)
    IN [isValid |-> allValid(isCardNumberValid, isCvvValid, isExpiryValid,
                             isHolderNameValid),
        errors |-> [cardNumber |-> errorFlag(isCardNumberValid),
                    cvv |-> errorFlag(isCvvValid),
                    expiry |-> errorFlag(isExpiryValid),
                    holderName |-> errorFlag(isHolderNameValid)],
        cardType |-> cardType,
        evaluated |-> <<"validateNumber", "getType", "validateCVC",
                        "validateExpiry", "validateHolderName">>]

\* The brands window.OpenPay.card.cardType reports to getType.
SdkBrands == {"visa", "american_express", "unknown"}

\* card.validateCard(card) on a ready client: every ensureInitialized() in it
\* returns at once and the promise resolves.
ValidateCardResolves ==
    /\ fn.op = "validateCard"
    /\ ~fn.done
    /\ NoMicrotask
    /\ Ready
    /\ fn' = [op |-> "validateCard", done |-> TRUE, initialized |-> initialized,
              sdk |-> fn.sdk, holderName |-> fn.holderName,
              nameOk |-> validateHolderName(fn.holderName),
              out |-> validateCard(fn.sdk, fn.holderName)]
    /\ UNCHANGED <<clientVars, dom, worldVars, escaped, last, task>>

\* openpay-client.ts:15
retryDelay == 2000

\* openpay-client.ts:16
maxRetryDelay == 10000

\* Math.random() * 1000
JitterValues == {0, 1, 499, 500, 998, 999}

Min(a, b) == IF a < b THEN a ELSE b

backoffDelayFlat(rc, jitter) == Min(retryDelay + jitter, maxRetryDelay)

\* The delay of the backoff, retryCount already incremented.
backoffDelay(rc, jitter) == Min(retryDelay * 2 ^ (rc - 1) + jitter, maxRetryDelay)

\* The waits of a sequence all of whose attempts fail, from retryCount rc on;
\* jitter[k] is what Math.random() gives after the k-th failure.
RECURSIVE waits(_, _)
waits(rc, jitter) ==
    IF ~WhileCond(rc) THEN <<>>
    ELSE IF BackoffCond(rc + 1)
    THEN <<backoffDelay(rc + 1, jitter[rc + 1])>> \o waits(rc + 1, jitter)
    ELSE waits(rc + 1, jitter)

\* A sequence fails maxRetries times.
SequenceWaits ==
    /\ fn.op = "waits"
    /\ ~fn.done
    /\ fn' = [op |-> "waits", done |-> TRUE, jitter |-> fn.jitter,
              out |-> waits(0, fn.jitter)]
    /\ UNCHANGED <<clientVars, dom, worldVars, escaped, last, task>>

\* card.validateHolderName(name) returns.
ValidateHolderNameReturns ==
    /\ fn.op = "validateHolderName"
    /\ ~fn.done
    /\ fn' = [op |-> "validateHolderName", done |-> TRUE,
              initialized |-> initialized, name |-> fn.name,
              out |-> validateHolderName(fn.name)]
    /\ UNCHANGED <<clientVars, dom, worldVars, escaped, last, task>>

\* A client that has become ready in the background and is at rest.
InitReady ==
    /\ initialized = TRUE
    /\ deviceSessionId \in SessionIds
    /\ retryTimeout = "none"
    /\ healthCheckInterval = "active"
    /\ dom = [s \in OPENPAY_SCRIPTS |-> 1]
    /\ windowOpenPay = TRUE
    /\ deviceData = TRUE
    /\ orphan = {}
    /\ env = "flaky"
    /\ escaped = FALSE
    /\ last = NoPromise
    /\ task = [t \in Tasks |-> IdleTask]

\* The calls the page makes, with what the vendor will answer.
FieldCalls ==
    {[op |-> "validateField", done |-> FALSE, fieldName |-> f, value |-> val,
      aux |-> aux, sdk |-> sdk] :
        f \in FieldNames, val \in FieldValues, aux \in AuxValues, sdk \in SdkAnswers}

CardCalls ==
    {[op |-> "validateCard", done |-> FALSE, sdk |-> sdk, holderName |-> name] :
        sdk \in {a \in SdkAnswers : a.cardType \in SdkBrands}, name \in FieldValues}

\* What window.OpenPay.deviceData.setup does when called: it returns an id,
\* returns an empty one, or throws (deviceData is undefined).
SetupAnswers == SessionIds \cup {"", "throws"}

\* setupDeviceSession() and the form it hands to the vendor.  configured:
\* config.formId is set; exists: the document holds an element with the id
\* used.  formInDocument: that element is in the document afterwards.
setupDeviceSessionForm(configured, exists, answer) ==
    LET created == ~exists
        removed == answer # "throws" /\ ~configured
    IN [created |-> created,
        formInDocument |-> ~removed,
        result |-> IF answer \in {"", "throws"} THEN "null" ELSE answer]

SetupCalls ==
    {[op |-> "setupDeviceSession", done |-> FALSE, configured |-> c, exists |-> x,
      answer |-> a] :
        c \in BOOLEAN, x \in BOOLEAN, a \in SetupAnswers}

\* setupDeviceSession() returns.
SetupDeviceSessionReturns ==
    /\ fn.op = "setupDeviceSession"
    /\ ~fn.done
    /\ fn' = [op |-> "setupDeviceSession", done |-> TRUE,
              configured |-> fn.configured, exists |-> fn.exists,
              answer |-> fn.answer,
              out |-> setupDeviceSessionForm(fn.configured, fn.exists, fn.answer)]
    /\ UNCHANGED <<clientVars, dom, worldVars, escaped, last, task>>

HolderNameCalls ==
    {[op |-> "validateHolderName", done |-> FALSE, name |-> name] :
        name \in FieldValues}

WaitCalls ==
    {[op |-> "waits", done |-> FALSE, jitter |-> jitter] :
        jitter \in [1..maxRetries -> JitterValues]}

\* A client just constructed, or a ready one, and the call the page makes.
InitCalls ==
    /\ InitEnv("flaky") \/ InitReady
    /\ fn \in FieldCalls \cup CardCalls \cup WaitCalls \cup HolderNameCalls
                \cup SetupCalls

NextCalls ==
    \/ ValidateFieldReturns
    \/ ValidateHolderNameReturns
    \/ ValidateCardResolves
    \/ SequenceWaits
    \/ SetupDeviceSessionReturns

\* The page calls the client's synchronous and validating operations, on a
\* client just constructed and on a ready one.
SpecCalls == InitCalls /\ [][NextCalls]_vars

-----------------------------------------------------------------------------
\* The validators and the card schema

\* Longest string of digits luhnCheck is tried on exhaustively.
MaxDigits == 4

DigitChars == <<"0", "1", "2", "3", "4", "5", "6", "7", "8", "9">>

\* Number.parseInt of one digit character.
DigitValue(c) == (CHOOSE i \in 1..10 : DigitChars[i] = c) - 1

IsDigit(c) == c \in Digit

\* cardNumber.replace(/\D/g, "")
stripNonDigits(s) == SelectSeq(s, IsDigit)

NotSpace(c) == c \notin Whitespace

\* val.replace(/\s+/g, "")
stripSpaces(s) == SelectSeq(s, NotSpace)

luhnDoubleNoFold(digit) == digit * 2

\* digit *= 2; if (digit > 9) digit -= 9
luhnDouble(digit) == IF digit * 2 > 9 THEN digit * 2 - 9 ELSE digit * 2

\* The for loop of luhnCheck, at index i (from 1) with sum and isEven.
RECURSIVE luhnLoop(_, _, _, _)
luhnLoop(digits, i, sum, isEven) ==
    IF i < 1 THEN sum
    ELSE LET digit == DigitValue(digits[i])
         IN luhnLoop(digits, i - 1,
                     sum + (IF isEven THEN luhnDouble(digit) ELSE digit),
                     ~isEven)

luhnCheck(cardNumber) ==
    LET digits == stripNonDigits(cardNumber)
    IN luhnLoop(digits, Len(digits), 0, FALSE) % 10 = 0

AllDigits(s) == \A i \in 1..Len(s) : s[i] \in Digit

StartsWith(s, prefix) ==
    /\ Len(s) >= Len(prefix)
    /\ SubSeq(s, 1, Len(prefix)) = prefix

\* Object.entries(CARD_PATTERNS): the keys in insertion order.
CardPatternTypes ==
    <<"visa", "mastercard", "amex", "diners", "discover", "visa_electron",
      "maestro">>

VisaElectronPrefixes ==
    {<<"4", "0", "2", "6">>, <<"4", "1", "7", "5", "0", "0">>,
     <<"4", "5", "0", "8">>, <<"4", "8", "4", "4">>, <<"4", "9", "1", "3">>,
     <<"4", "9", "1", "7">>}

MaestroPrefixes ==
    {<<"5", "0", "1", "8">>, <<"5", "0", "2", "0">>, <<"5", "0", "3", "8">>,
     <<"6", "3", "0", "4">>, <<"6", "7", "5", "9">>, <<"6", "7", "6", "1">>,
     <<"6", "7", "6", "2">>, <<"6", "7", "6", "3">>}

\* CARD_PATTERNS[type].test(s)
patternTest(type, s) ==
    CASE type = "visa" ->
           /\ Len(s) \in {13, 16}
           /\ AllDigits(s)
           /\ s[1] = "4"
      [] type = "mastercard" ->
           /\ Len(s) = 16
           /\ AllDigits(s)
           /\ s[1] = "5"
           /\ s[2] \in {"1", "2", "3", "4", "5"}
      [] type = "amex" ->
           /\ Len(s) = 15
           /\ AllDigits(s)
           /\ s[1] = "3"
           /\ s[2] \in {"4", "7"}
      [] type = "diners" ->
           /\ Len(s) = 14
           /\ AllDigits(s)
           /\ s[1] = "3"
           /\ \/ s[2] = "0" /\ s[3] \in {"0", "1", "2", "3", "4", "5"}
              \/ s[2] \in {"6", "8"}
      [] type = "discover" ->
           /\ Len(s) = 16
           /\ AllDigits(s)
           /\ s[1] = "6"
           /\ \/ SubSeq(s, 2, 4) = <<"0", "1", "1">>
              \/ s[2] = "5"
      [] type = "visa_electron" ->
           \E prefix \in VisaElectronPrefixes : StartsWith(s, prefix)
      [] type = "maestro" ->
           \E prefix \in MaestroPrefixes : StartsWith(s, prefix)

\* The for loop of getCardType, from entry i on.
RECURSIVE getCardTypeFrom(_, _)
getCardTypeFrom(i, cardNumber) ==
    IF i > Len(CardPatternTypes) THEN "unknown"
    ELSE IF patternTest(CardPatternTypes[i], cardNumber) THEN CardPatternTypes[i]
    ELSE getCardTypeFrom(i + 1, cardNumber)

getCardType(cardNumber) == getCardTypeFrom(1, cardNumber)

matchesCardType(cardNumber, type) == patternTest(type, cardNumber)

RECURSIVE parseDigits(_, _)
parseDigits(s, acc) ==
    IF s # <<>> /\ Head(s) \in Digit
    THEN parseDigits(Tail(s), acc * 10 + DigitValue(Head(s)))
    ELSE acc

NaN == [nan |-> TRUE, n |-> 0]

Number(n) == [nan |-> FALSE, n |-> n]

\* Number.parseInt(val, 10): leading whitespace, a sign, then digits as far as
\* they go; NaN when there is no digit.
parseInt(val) ==
    LET t == trimStart(val)
        signed == t # <<>> /\ Head(t) \in {"+", "-"}
        d == IF signed THEN Tail(t) ELSE t
    IN IF d # <<>> /\ Head(d) \in Digit
       THEN Number(IF signed /\ Head(t) = "-" THEN 0 - parseDigits(d, 0)
                                              ELSE parseDigits(d, 0))
       ELSE NaN

\* a < b, a === b, a >= b of numbers: false when one of them is NaN.
jsLess(a, b) == ~a.nan /\ ~b.nan /\ a.n < b.n

jsEqual(a, b) == ~a.nan /\ ~b.nan /\ a.n = b.n

jsAtLeast(a, b) == ~a.nan /\ ~b.nan /\ a.n >= b.n

\* validators.isExpirationValid(month, year), at a date whose getFullYear()
\* is fullYear and whose getMonth() is monthIndex.
isExpirationValid(month, year, fullYear, monthIndex) ==
    LET currentYear == Number(fullYear % 100)
        currentMonth == Number(monthIndex + 1)
        expMonth == parseInt(month)
        expYear == parseInt(year)
    IN IF jsLess(expYear, currentYear) THEN FALSE
       ELSE IF jsEqual(expYear, currentYear) /\ jsLess(expMonth, currentMonth)
       THEN FALSE
       ELSE TRUE

\* addressSchema.optional(): no address, or one that passes addressSchema.
addressSchema(a) ==
    \/ ~a.present
    \/ /\ Len(a.city) >= 1
       /\ Len(a.country_code) = 2
       /\ Len(a.postal_code) >= 1
       /\ Len(a.line1) >= 1
       /\ Len(a.state) >= 1

\* card_number: min(13), max(19), then the refine on the stripped number.
cardNumberField(val) ==
    /\ Len(val) >= 13
    /\ Len(val) <= 19
    /\ \E i \in 1..Len(CardPatternTypes) :
          patternTest(CardPatternTypes[i], stripSpaces(val))

holderNameField(val) ==
    /\ Len(val) >= 3
    /\ Len(val) <= 100
    /\ LettersAndSpaces(val)

expirationYearField(val, fullYear) ==
    /\ Len(val) = 2
    /\ AllDigits(val)
    /\ jsAtLeast(parseInt(val), Number(fullYear % 100))

\* /^(0[1-9]|1[0-2])$/
expirationMonthField(val) ==
    /\ Len(val) = 2
    /\ \/ val[1] = "0" /\ val[2] \in Digit \ {"0"}
       \/ val[1] = "1" /\ val[2] \in {"0", "1", "2"}

cvv2NumericAny(val) == TRUE

\* /^\d+$/
cvv2Numeric(val) == val # <<>> /\ AllDigits(val)

cvv2Field(val) ==
    /\ Len(val) >= 3
    /\ Len(val) <= 4
    /\ cvv2Numeric(val)

\* The superRefine of cardSchema: no issue is added.
cvvLengthRefine(data) ==
    LET cardNumber == stripSpaces(data.card_number)
        cvvLength == Len(data.cvv2)
    IN IF patternTest("amex", cardNumber) THEN cvvLength = 4 ELSE cvvLength = 3

\* The paths of the issues cardSchema.safeParse(data) reports; fullYear is
\* new Date().getFullYear().
cardSchemaIssues(data, fullYear) ==
    {path \in {"card_number", "holder_name", "expiration_year",
               "expiration_month", "cvv2", "address"} :
        \/ path = "card_number" /\ ~cardNumberField(data.card_number)
        \/ path = "holder_name" /\ ~holderNameField(data.holder_name)
        \/ path = "expiration_year"
              /\ ~expirationYearField(data.expiration_year, fullYear)
        \/ path = "expiration_month" /\ ~expirationMonthField(data.expiration_month)
        \/ path = "cvv2" /\ (~cvv2Field(data.cvv2) \/ ~cvvLengthRefine(data))
        \/ path = "address" /\ ~addressSchema(data.address)}

\* cardSchema.safeParse(data).success
cardSchema(data, fullYear) == cardSchemaIssues(data, fullYear) = {}

Fill(c, n) == [i \in 1..n |-> c]

\* A string of length len that starts with prefix and ends with tail.
MakeNumber(prefix, len, tail) ==
    prefix \o Fill("0", len - Len(prefix) - 1) \o <<tail>>

Spaced(n) == SubSeq(n, 1, 4) \o <<" ">> \o SubSeq(n, 5, Len(n))

NumberPrefixes ==
    {<<>>, <<"1">>, <<"4">>, <<"4", "0", "2", "6">>,
     <<"4", "1", "7", "5", "0", "0">>, <<"4", "5", "0", "8">>, <<"4", "8", "4", "4">>, <<"4", "9", "1", "3">>,
     <<"4", "9", "1", "7">>, <<"4", "9", "1", "5">>, <<"5", "0">>, <<"5", "0", "1", "8">>,
     <<"5", "0", "2", "0">>, <<"5", "0", "3", "8">>, <<"5", "1">>, <<"5", "5">>,
     <<"5", "6">>, <<"3", "0", "0">>, <<"3", "0", "5">>, <<"3", "0", "6">>,
     <<"3", "4">>, <<"3", "5">>, <<"3", "6">>, <<"3", "7">>,
     <<"3", "8">>, <<"3", "9">>, <<"6", "0", "1", "1">>, <<"6", "0", "1", "2">>,
     <<"6", "4">>, <<"6", "5">>, <<"6", "3", "0", "4">>, <<"6", "7", "5", "9">>,
     <<"6", "7", "6", "0">>, <<"6", "7", "6", "1">>, <<"6", "7", "6", "3">>, <<"6", "7", "6", "4">>}

NumberLengths == {12, 13, 14, 15, 16, 17, 19}

NumberTails == {"0", "9", "x"}

\* The card numbers getCardType is tried on.
CardNumbers ==
    {MakeNumber(prefix, len, tail) :
        prefix \in NumberPrefixes, len \in NumberLengths, tail \in NumberTails}
        \cup {<<>>}

RECURSIVE DigitStrings(_)
DigitStrings(n) ==
    IF n = 0 THEN {<<>>}
    ELSE LET shorter == DigitStrings(n - 1)
         IN shorter \cup {Append(d, c) : d \in {x \in shorter : Len(x) = n - 1},
                                         c \in Digit}

\* 411111111111111 and a last digit.
TestVisa(tail) == <<"4">> \o Fill("1", 14) \o <<tail>>

\* The strings luhnCheck is tried on: every string of up to MaxDigits digits,
\* and three written card numbers.
LuhnNumbers ==
    DigitStrings(MaxDigits)
        \cup {TestVisa("1"), TestVisa("2"), Spaced(TestVisa("1"))}

\* The card numbers the schema is tried on, written with and without a space.
SchemaNumbers ==
    LET plain == {MakeNumber(prefix, len, "0") :
                     prefix \in {<<"3", "7">>, <<"4">>, <<"1">>,
                                 <<"4", "0", "2", "6">>},
                     len \in {15, 16}}
    IN plain \cup {Spaced(n) : n \in plain}
             \cup {MakeNumber(<<"4", "0", "2", "6">>, 14, "x"),
                   <<"4", "0", "2", "6">> \o Fill(" ", 9)}

CvvValues ==
    {<<>>, <<"1", "2">>, <<"1", "2", "3">>, <<"1", "2", "3", "4">>,
     <<"1", "2", "3", "4", "5">>, <<"1", "2", "a">>, <<"1", "2", "3", " ">>}

HolderNames == {<<"A", "n", "a", " ", "L", "i">>, <<"J", "o">>, <<"a", "1", "c">>}

YearValues == {<<"2", "9">>, <<"1", "9">>, <<"2", "a">>, <<"2", "9", "9">>}

MonthValues == {<<"1", "2">>, <<"0", "0">>, <<"1", "3">>, <<"1">>}

\* new Date().getFullYear()
FullYears == {2026, 2029}

NoAddress == [present |-> FALSE]

Addresses ==
    {NoAddress} \cup
    {[present |-> TRUE, city |-> city, country_code |-> <<"P", "E">>,
      postal_code |-> <<"1">>, line1 |-> <<"x">>, state |-> <<"L">>] :
        city \in {<<>>, <<"L", "i", "m", "a">>}}

Cards ==
    [card_number : SchemaNumbers, holder_name : HolderNames,
     expiration_year : YearValues, expiration_month : MonthValues,
     cvv2 : CvvValues, address : Addresses]

\* What isExpirationValid is called with, and when.
ExpMonths ==
    {<<>>, <<"0", "0">>, <<"0", "1">>, <<"0", "5">>, <<"0", "6">>, <<"0", "7">>,
     <<"1", "2">>, <<"1", "3">>, <<"6">>, <<"a", "b">>, <<"-", "1">>}

ExpYears ==
    {<<>>, <<"2", "4">>, <<"2", "5">>, <<"2", "6">>, <<"a", "b">>,
     <<"2", "0", "2", "5">>}

\* new Date(): getFullYear(), getMonth()
Dates == {[fullYear |-> 2025, monthIndex |-> 5], [fullYear |-> 2026, monthIndex |-> 10]}

ExpirationCalls ==
    {[op |-> "isExpirationValid", done |-> FALSE, month |-> m, year |-> y,
      date |-> d] : m \in ExpMonths, y \in ExpYears, d \in Dates}

LuhnCalls == {[op |-> "luhnCheck", done |-> FALSE, cardNumber |-> n] : n \in LuhnNumbers}

CardTypeCalls ==
    {[op |-> "getCardType", done |-> FALSE, cardNumber |-> n] : n \in CardNumbers}

MatchCalls ==
    {[op |-> "matchesCardType", done |-> FALSE, cardNumber |-> n, type |-> CardPatternTypes[i]] :
        n \in CardNumbers, i \in 1..Len(CardPatternTypes)}

SchemaCalls ==
    {[op |-> "cardSchema", done |-> FALSE, data |-> card, fullYear |-> y] :
        card \in Cards, y \in FullYears}

\* validators.luhnCheck(cardNumber) returns.
LuhnCheckReturns ==
    /\ fn.op = "luhnCheck"
    /\ ~fn.done
    /\ fn' = [op |-> "luhnCheck", done |-> TRUE, cardNumber |-> fn.cardNumber,
              out |-> luhnCheck(fn.cardNumber)]
    /\ UNCHANGED <<clientVars, dom, worldVars, escaped, last, task>>

\* validators.isExpirationValid(month, year) returns.
IsExpirationValidReturns ==
    /\ fn.op = "isExpirationValid"
    /\ ~fn.done
    /\ fn' = [op |-> "isExpirationValid", done |-> TRUE, month |-> fn.month,
              year |-> fn.year, date |-> fn.date,
              out |-> isExpirationValid(fn.month, fn.year, fn.date.fullYear,
                                        fn.date.monthIndex)]
    /\ UNCHANGED <<clientVars, dom, worldVars, escaped, last, task>>

\* validators.getCardType(cardNumber) returns.
GetCardTypeReturns ==
    /\ fn.op = "getCardType"
    /\ ~fn.done
    /\ fn' = [op |-> "getCardType", done |-> TRUE, cardNumber |-> fn.cardNumber,
              out |-> getCardType(fn.cardNumber)]
    /\ UNCHANGED <<clientVars, dom, worldVars, escaped, last, task>>

\* validators.matchesCardType(cardNumber, type) returns.
MatchesCardTypeReturns ==
    /\ fn.op = "matchesCardType"
    /\ ~fn.done
    /\ fn' = [op |-> "matchesCardType", done |-> TRUE,
              cardNumber |-> fn.cardNumber, type |-> fn.type,
              out |-> matchesCardType(fn.cardNumber, fn.type)]
    /\ UNCHANGED <<clientVars, dom, worldVars, escaped, last, task>>

\* cardSchema.safeParse(data) returns.
CardSchemaReturns ==
    /\ fn.op = "cardSchema"
    /\ ~fn.done
    /\ fn' = [op |-> "cardSchema", done |-> TRUE, data |-> fn.data,
              fullYear |-> fn.fullYear,
              out |-> [success |-> cardSchema(fn.data, fn.fullYear),
                       issues |-> cardSchemaIssues(fn.data, fn.fullYear)]]
    /\ UNCHANGED <<clientVars, dom, worldVars, escaped, last, task>>

InitValidators ==
    /\ InitEnv("flaky")
    /\ fn \in LuhnCalls \cup CardTypeCalls \cup MatchCalls \cup SchemaCalls
                \cup ExpirationCalls

NextValidators ==
    \/ LuhnCheckReturns
    \/ IsExpirationValidReturns
    \/ GetCardTypeReturns
    \/ MatchesCardTypeReturns
    \/ CardSchemaReturns

\* The page calls the validators and the schema, which do not use the client.
SpecValidators == InitValidators /\ [][NextValidators]_vars

\* All of local validation, the client's and the validators'.
SpecLocal == (InitCalls \/ InitValidators) /\ [][NextCalls \/ NextValidators]_vars

-----------------------------------------------------------------------------
\* Properties

\* C1: in every reachable state initialized is true if and only if
\* deviceSessionId is non-empty.
C1_InitializedIffSession == initialized <=> (deviceSessionId # "")

\* A client that became ready again after a cleanup().
C1_Witness ==
    /\ initialized
    /\ deviceSessionId \in SessionIds
    /\ healthCheckInterval = "cleared"

InitSequences == {t \in Tasks : InLoop(task[t])}

\* C2: at most one initialization sequence (a run of the retry loop) is in
\* progress at any time, whatever started it.
C2_OneSequenceAtATime == Cardinality(InitSequences) <= 1

\* C3: a health-check tick that comes while an initialization sequence is in
\* progress starts no initialization: no task, no script tag.
C3_TickIsNoOpWhileInitializing ==
    [][(InitSequences # {} /\ HealthCheckTick) => UNCHANGED <<task, dom>>]_vars

\* C4: a run of the retry loop never makes a 4th attempt, is out of the loop
\* once 3 attempts have failed, and when it ends in failure it has made
\* exactly 3 attempts.
C4_ExactlyThreeAttempts ==
    \A t \in Tasks :
        /\ task[t].attempts <= 3
        /\ InLoop(task[t]) => task[t].retryCount < 3
        /\ task[t].pc = "loading" => task[t].attempts = task[t].retryCount + 1
        /\ task[t].pc = "backoff" => task[t].attempts = task[t].retryCount
        /\ (task[t].pc = "resume" /\ task[t].res = "err") =>
               task[t].attempts = 3 /\ task[t].retryCount = 3

\* A run of the loop has ended in failure.
C4_Witness ==
    \E t \in Tasks :
        task[t].pc = "resume" /\ task[t].res = "err" /\ task[t].attempts = 3

\* C5: when the readiness wait of createToken, createTokenFromForm or a
\* validator ends with all attempts failed, the operation's promise rejects
\* with the error of the last failed attempt.
C5_RejectsWithLastError ==
    [][\A t \in Tasks :
          (/\ task[t].pc = "resume"
           /\ task[t].kind = "awaiting"
           /\ task[t].res = "err"
           /\ task'[t] # task[t])
          => /\ task[t].attemptError # NoError
             /\ last'.kind \in AwaitingKinds
             /\ last'.settled = "rejected"
             /\ last'.value = task[t].attemptError
             /\ last'.calls = 0]_vars

\* A createToken rejected with the error of an initialization attempt.
C5_Witness ==
    /\ last.kind = "createToken"
    /\ last.settled = "rejected"
    /\ last.value \in {ErrNotLoaded, ErrSession, LoadError(CoreScript), LoadError(DataScript)}

\* C6: when a background initialization has used up its attempts, the error
\* reaches nobody and the retry timer is armed; the timer's firing starts a
\* new initialization sequence; and so for every background sequence.
C6_BackgroundFailureSchedulesRetry ==
    [][/\ \A t \in Tasks :
             (/\ task[t].pc = "resume"
              /\ task[t].kind = "initialize"
              /\ task[t].res = "err"
              /\ task'[t] # task[t])
             => /\ retryTimeout' = "pending"
                /\ ~escaped'
                /\ last' = last
       /\ (retryTimeout = "pending" /\ RetryTimerFires)
             => \E t \in Tasks :
                   /\ task[t].pc = "idle"
                   /\ task'[t].kind = "initialize"
                   /\ task'[t].pc \in {"loading", "backoff", "resume"}]_vars

\* The retry timer is armed while a sequence started by an earlier firing of it
\* is still in its loop.
C6_Witness ==
    /\ retryTimeout = "pending"
    /\ ~escaped
    /\ \E t \in Tasks : task[t].kind = "initialize" /\ task[t].retryCount = 2

\* C8 as stated: the vendor's tokenization function is invoked only when
\* initialized is true with a non-empty deviceSessionId at that moment.
C8_InvokedOnlyWhenReady ==
    [][\A t \in Tasks :
          (task'[t].pc = "tokenizing" /\ task[t].pc # "tokenizing") => Ready]_vars

\* C8 amended: the vendor's tokenization function is invoked only after the
\* readiness wait has returned without an error, a wait that returns only when
\* the client is ready at that moment, and never after the wait has thrown.
C8_InvokedOnlyAfterReadyWait ==
    [][\A t \in Tasks :
          /\ (task'[t].pc = "tokenizing" /\ task[t].pc # "tokenizing")
                => /\ task[t].pc = "resume"
                   /\ task[t].res = "ok"
                   /\ task'[t].kind \in TokenKinds
                   /\ task'[t].calls = 1
          /\ (task'[t].pc = "resume" /\ task'[t].res = "ok" /\ task[t].pc # "resume")
                => Ready'
          /\ (task[t].pc = "resume" /\ task[t].res = "err")
                => task'[t].pc # "tokenizing"]_vars

\* A tokenization is under way on a client that cleanup() has reset.
C8_Witness ==
    /\ ~initialized
    /\ \E t \in Tasks : task[t].pc = "tokenizing" /\ task[t].kind = "createTokenFromForm"

\* C9: when the vendor calls the error callback, the promise rejects with the
\* vendor's value as it is, the vendor's tokenization has been invoked once for
\* the call, and no tokenization or initialization is started by it.
C9_VendorErrorUnmodified ==
    [][(last'.callbacks = 1 /\ last.callbacks = 0 /\ last'.vendorArg \in VendorErrors)
          => /\ last'.kind \in TokenKinds
             /\ last'.settled = "rejected"
             /\ last'.value = last'.vendorArg
             /\ last'.calls = 1
             /\ \A t \in Tasks : task'[t] = task[t] \/ task'[t] = IdleTask
             /\ dom' = dom]_vars

\* A createToken rejected by the vendor.
C9_Witness ==
    /\ last.kind = "createToken"
    /\ last.settled = "rejected"
    /\ last.callbacks = 1
    /\ last.vendorArg \in VendorErrors

\* The network and the vendor are well: scripts load, window.OpenPay and its
\* deviceData are defined, device setup returns an id.
Good == env = "good" /\ windowOpenPay /\ deviceData

\* C7: with no cleanup() and no caller operation, once scripts load, the
\* vendor global is present and device setup returns an id, the client
\* eventually is ready.
C7_SelfHealing == Good ~> Ready

\* The vendor is well, the client is not ready and nothing is in flight: only
\* a timer can bring it back.
C7_Witness ==
    /\ Good
    /\ NotReady
    /\ \A t \in Tasks : task[t].pc = "idle"

\* C10: where scripts load, device setup answers and the vendor calls the
\* success callback, a createToken that has settled has resolved, with the
\* token the vendor passed, whatever the vendor calls afterwards.
C10_CreateTokenResolves ==
    (last.kind \in TokenKinds /\ last.settled # "pending")
        => /\ last.settled = "resolved"
           /\ last.value \in TokenValues
           /\ last.value = last.vendorArg

NoVendorScript(d) == \A s \in OPENPAY_SCRIPTS : d[s] = 0

\* C11: right after cleanup(), from any state, initialized is false, the
\* session id is empty, the document has no vendor script tag, and the retry
\* timer and the health-check interval are cancelled.
C11_CleanupResets ==
    [][Cleanup => /\ ~initialized'
                  /\ deviceSessionId' = ""
                  /\ NoVendorScript(dom')
                  /\ retryTimeout' = "none"
                  /\ healthCheckInterval' = "cleared"]_vars

\* cleanup() has reset a client whose scripts had loaded, while a background
\* sequence was waiting in its backoff.
C11_Witness ==
    /\ healthCheckInterval = "cleared"
    /\ retryTimeout = "none"
    /\ ~initialized
    /\ NoVendorScript(dom)
    /\ windowOpenPay
    /\ \E t \in Tasks : task[t].kind = "initialize" /\ task[t].pc = "backoff"

C13_ResultDiscardedAfterCleanup ==
    [][(healthCheckInterval = "cleared" /\ ~initialized /\ initialized')
          => \E t \in Tasks : task[t].kind # "initialize" /\ task'[t] # task[t]]_vars

\* C14 as stated: validateField on a client that is not initialized gives, for
\* the fields the vendor validates, isValid = false and a non-empty message;
\* every result has isDirty = true and the input value.
C14_NotInitializedInvalidWithMessage ==
    (fn.op = "validateField" /\ fn.done)
        => /\ fn.out.isDirty
           /\ fn.out.value = fn.value
           /\ (~fn.initialized /\ fn.fieldName \in SdkFields)
                 => ~fn.out.isValid /\ fn.out.message # ""

\* C14 amended: validateField on a client that is not initialized returns
\* while the initialization it started is still pending, and for the fields
\* the vendor validates its result has isValid = false and a message that is
\* non-empty exactly when the input is given (the value; month and year for
\* the expiration fields); every result has isDirty = true and the input value.
C14_NotInitializedInvalid ==
    (fn.op = "validateField" /\ fn.done)
        => /\ fn.out.isDirty
           /\ fn.out.value = fn.value
           /\ (~fn.initialized /\ fn.fieldName \in SdkFields)
                 => LET InputGiven ==
                            IF fn.fieldName \in {"expiration_month", "expiration_year"}
                            THEN fn.value # <<>> /\ fn.aux # <<>>
                            ELSE fn.value # <<>>
                    IN /\ ~fn.out.isValid
                       /\ (fn.out.message # "") <=> InputGiven

\* validateField has returned "Invalid card number" on a client that is not
\* initialized, and the initialization it started is waiting in its backoff.
C14_Witness ==
    /\ fn.op = "validateField"
    /\ fn.done
    /\ ~fn.initialized
    /\ fn.fieldName = "card_number"
    /\ fn.out.message = "Invalid card number"
    /\ ~initialized
    /\ \E t \in Tasks : task[t].kind = "validateField" /\ InLoop(task[t])

\* C15: validateCard on a ready client sets each error flag exactly when its
\* check failed, isValid exactly when no flag is set, cardType to the brand the
\* vendor detects, and has evaluated all four checks.
C15_ValidateCardAggregates ==
    (fn.op = "validateCard" /\ fn.done)
        => /\ fn.out.errors.cardNumber = ~fn.sdk.number
           /\ fn.out.errors.cvv = ~fn.sdk.cvc
           /\ fn.out.errors.expiry = ~fn.sdk.expiry
           /\ fn.out.errors.holderName = ~fn.nameOk
           /\ fn.out.isValid <=> (/\ ~fn.out.errors.cardNumber
                                  /\ ~fn.out.errors.cvv
                                  /\ ~fn.out.errors.expiry
                                  /\ ~fn.out.errors.holderName)
           /\ fn.out.cardType = fn.sdk.cardType
           /\ {"validateNumber", "validateCVC", "validateExpiry",
               "validateHolderName"}
                 \subseteq {fn.out.evaluated[i] : i \in 1..Len(fn.out.evaluated)}

\* The card number check failed, and the holder name check failed as well.
C15_Witness ==
    /\ fn.op = "validateCard"
    /\ fn.done
    /\ fn.initialized
    /\ fn.out.errors.cardNumber
    /\ fn.out.errors.holderName
    /\ ~fn.out.errors.cvv
    /\ ~fn.out.isValid

\* C17: the waits of a sequence whose attempts all fail are two, the k-th
\* being min(2000 * 2^(k-1) + jitter, 10000); they are strictly increasing
\* and none exceeds 10000; no wait follows the 3rd failure.
C17_BackoffDelays ==
    (fn.op = "waits" /\ fn.done)
        => /\ Len(fn.out) = 2
           /\ \A k \in 1..2 :
                 /\ fn.out[k] = Min(2000 * 2 ^ (k - 1) + fn.jitter[k], 10000)
                 /\ fn.out[k] <= 10000
           /\ fn.out[1] < fn.out[2]

\* The largest jitter after the 1st failure, the smallest after the 2nd.
C17_Witness ==
    /\ fn.op = "waits"
    /\ fn.done
    /\ fn.out = <<2999, 4000>>

\* C16: the document never holds more than one script tag per vendor script,
\* and no step appends a tag for a script whose tag is present, however many
\* attempts, retries and concurrent sequences there are.
C16_OneTagPerScript ==
    /\ [](\A s \in OPENPAY_SCRIPTS : dom[s] <= 1)
    /\ [][\A s \in OPENPAY_SCRIPTS : TagPresent(dom, s) => dom'[s] <= dom[s]]_vars

\* Two sequences run at once, one of them after a failed attempt, on the same
\* pair of tags.
C16_Witness ==
    /\ Cardinality(InitSequences) = 2
    /\ \A s \in OPENPAY_SCRIPTS : dom[s] = 1
    /\ \E t \in Tasks : task[t].pc = "loading" /\ task[t].retryCount >= 1

\* C18: for every string of digits, luhnCheck is true exactly when the sum of
\* the digits taken from the right, every second one from the second doubled
\* and reduced by 9 when the double exceeds 9, is divisible by 10.
C18_LuhnStandard ==
    (fn.op = "luhnCheck" /\ fn.done /\ AllDigits(fn.cardNumber))
        => LET n == fn.cardNumber
               \* the p-th digit from the right
               FromRight(p) == DigitValue(n[Len(n) + 1 - p])
               Term(p) == IF p % 2 = 1 THEN FromRight(p)
                          ELSE IF 2 * FromRight(p) > 9 THEN 2 * FromRight(p) - 9
                          ELSE 2 * FromRight(p)
               RECURSIVE SumTo(_)
               SumTo(p) == IF p = 0 THEN 0 ELSE Term(p) + SumTo(p - 1)
           IN /\ fn.out <=> (SumTo(Len(n)) % 10 = 0)
              /\ n = TestVisa("1") => fn.out
              /\ n = TestVisa("2") => ~fn.out

\* luhnCheck has accepted 4111111111111111.
C18_Witness ==
    /\ fn.op = "luhnCheck"
    /\ fn.done
    /\ fn.cardNumber = TestVisa("1")
    /\ fn.out

\* C19: getCardType returns the brand of the first pattern of the table that
\* matches, "unknown" exactly when none matches, and every number that matches
\* a brand's pattern resolves to that brand.
C19_EveryMatchResolves ==
    (fn.op = "getCardType" /\ fn.done)
        => LET matching == {i \in 1..Len(CardPatternTypes) :
                               patternTest(CardPatternTypes[i], fn.cardNumber)}
           IN /\ (fn.out = "unknown") <=> (matching = {})
              /\ \A i \in matching :
                    (\A j \in matching : i <= j) => fn.out = CardPatternTypes[i]
              /\ \A i \in matching : fn.out = CardPatternTypes[i]

\* C20: the schema accepts a card only if its cvv2 is made of digits and has
\* 4 of them when the card number, whitespace removed, is detected as American
\* Express, 3 of them for every other card number.
C20_CvvPolicy ==
    (fn.op = "cardSchema" /\ fn.done /\ fn.out.success)
        => /\ fn.data.cvv2 # <<>>
           /\ \A i \in 1..Len(fn.data.cvv2) : fn.data.cvv2[i] \in Digit
           /\ Len(fn.data.cvv2) =
                 IF getCardType(stripSpaces(fn.data.card_number)) = "amex"
                 THEN 4 ELSE 3

\* The schema has accepted an American Express number written with a space,
\* with a CVV of 4 digits.
C20_Witness ==
    /\ fn.op = "cardSchema"
    /\ fn.done
    /\ fn.out.success
    /\ fn.data.card_number = Spaced(MakeNumber(<<"3", "7">>, 15, "0"))
    /\ Len(fn.data.cvv2) = 4

\* C21: for a month and a year of two digits each, isExpirationValid is true
\* exactly when the month is one of 01..12 and the year is after the current
\* year mod 100, or is that year and the month is not before the current
\* month; at 2025-06, 05/25 is invalid, 06/25 and 01/26 are valid.
C21_ExpirationRule ==
    (/\ fn.op = "isExpirationValid"
     /\ fn.done
     /\ Len(fn.month) = 2 /\ AllDigits(fn.month)
     /\ Len(fn.year) = 2 /\ AllDigits(fn.year))
        => LET m == 10 * DigitValue(fn.month[1]) + DigitValue(fn.month[2])
               y == 10 * DigitValue(fn.year[1]) + DigitValue(fn.year[2])
               cy == fn.date.fullYear % 100
               cm == fn.date.monthIndex + 1
           IN fn.out <=> (/\ m \in 1..12
                          /\ y > cy \/ (y = cy /\ m >= cm))

\* C22: validateHolderName(name), and validateField("holder_name", name) on
\* a client ready or not, report valid exactly when name, trimmed, is not
\* empty and has at least 3 characters, and name is made of ASCII letters and
\* whitespace only.
C22_HolderNameRule ==
    LET Rule(name) ==
            LET inked == {i \in 1..Len(name) : name[i] \notin Whitespace}
            IN /\ inked # {}
               /\ \E i \in inked, j \in inked : j - i + 1 >= 3
               /\ \A i \in 1..Len(name) : name[i] \in Letter \cup Whitespace
    IN /\ (fn.op = "validateHolderName" /\ fn.done)
             => (fn.out <=> Rule(fn.name))
       /\ (fn.op = "validateField" /\ fn.done /\ fn.fieldName = "holder_name")
             => (fn.out.isValid <=> Rule(fn.value))

\* A holder name found valid by validateField on a client that is not
\* initialized.
C22_Witness ==
    /\ fn.op = "validateField"
    /\ fn.done
    /\ fn.fieldName = "holder_name"
    /\ ~fn.initialized
    /\ fn.out.isValid
    /\ fn.out.message = "Valid name"

\* C23: the schema accepts a card only if its card number has 13 to 19 digits
\* and matches a brand pattern; a card number with a character that is neither
\* a digit nor whitespace, or with fewer than 13 or more than 19 digits, is
\* rejected with an issue on card_number.
C23_CardNumberStructure ==
    (fn.op = "cardSchema" /\ fn.done)
        => LET n == fn.data.card_number
               digits == Cardinality({i \in 1..Len(n) : n[i] \in Digit})
               foreign == \E i \in 1..Len(n) : n[i] \notin Digit \cup Whitespace
           IN /\ fn.out.success
                    => /\ ~foreign
                       /\ digits \in 13..19
                       /\ \E i \in 1..Len(CardPatternTypes) :
                             patternTest(CardPatternTypes[i], stripSpaces(n))
              /\ (foreign \/ digits < 13 \/ digits > 19)
                    => "card_number" \in fn.out.issues

\* C27: a card the schema accepts has a card number that passes the Luhn
\* checksum.
C27_AcceptedPassesLuhn ==
    (fn.op = "cardSchema" /\ fn.done /\ fn.out.success)
        => luhnCheck(fn.data.card_number)

\* C24: every call of luhnCheck, isExpirationValid, getCardType,
\* matchesCardType, validateCard, validateHolderName and validateField on
\* strings (empty ones and ones with other characters than digits included)
\* returns a value of its result type, no exception gets out, and a failure is
\* a result.
C24_LocalValidationTotal ==
    fn.done
        => CASE fn.op \in {"luhnCheck", "isExpirationValid", "matchesCardType",
                           "validateHolderName"} ->
                  fn.out \in BOOLEAN
             [] fn.op = "getCardType" ->
                  \/ fn.out = "unknown"
                  \/ \E i \in 1..Len(CardPatternTypes) : fn.out = CardPatternTypes[i]
             [] fn.op = "cardSchema" ->
                  /\ fn.out.success \in BOOLEAN
                  /\ ~fn.out.success <=> fn.out.issues # {}
             [] fn.op = "validateField" ->
                  /\ fn.out.isValid \in BOOLEAN
                  /\ fn.out.cardType # "throws"
                  /\ fn.out.isDirty
                  /\ ~fn.out.isValid => fn.out.message # "Valid name"
             [] OTHER -> TRUE

\* The vendor's cardType has thrown inside validateField on a ready client,
\* and validateField has returned a result.
C24_Witness ==
    /\ fn.op = "validateField"
    /\ fn.done
    /\ fn.initialized
    /\ fn.fieldName = "card_number"
    /\ fn.sdk.cardType = "throws"
    /\ fn.out.cardType = "unknown"

\* C25: an attempt configures the vendor and calls the device-session setup
\* only when both vendor scripts have loaded, and the client does not become
\* ready while a script is still loading, whichever attempts overlap.
C25_SetupAfterBothLoaded ==
    [][/\ \A t \in Tasks :
            (/\ task'[t].retryCount # task[t].retryCount
             /\ task'[t].attemptError = ErrSession)
                => windowOpenPay' /\ deviceData'
       /\ (~initialized /\ initialized')
            => /\ windowOpenPay' /\ deviceData'
               /\ orphan' = {}
               /\ \A t \in Tasks, s \in OPENPAY_SCRIPTS : task'[t].load[s] # "wait"]_vars

\* C26: once cleanup() has been called, no retry timer is newly armed and no
\* armed timer is left to fire, also when an initialization sequence was in
\* flight at that moment.
C26_NoTimerAfterCleanup ==
    [][healthCheckInterval = "cleared" => retryTimeout' # "pending"]_vars

\* C28: on a ready client, an operation that awaits readiness goes on at once:
\* it enters no retry loop, so it appends no script tag and makes no vendor
\* configuration or device-session call, and initialized and deviceSessionId
\* keep their values.
C28_ReadyStartsNothing ==
    [][Ready =>
         \A t \in Tasks :
            (Idle(t) /\ task'[t].kind \in {"awaiting", "validateField"})
                => /\ task'[t] = [IdleTask EXCEPT !.kind = task'[t].kind,
                                                  !.pc = "resume", !.res = "ok"]
                   /\ dom' = dom
                   /\ orphan' = orphan
                   /\ initialized' = initialized
                   /\ deviceSessionId' = deviceSessionId]_vars

\* A ready client on which an operation has passed its
\* `await this.ensureInitialized()` with no attempt made.
C28_Witness ==
    /\ Ready
    /\ \A s \in OPENPAY_SCRIPTS : dom[s] = 1
    /\ \E t \in Tasks :
          /\ task[t].kind = "awaiting"
          /\ task[t].pc = "resume"
          /\ task[t].res = "ok"
          /\ task[t].attempts = 0
    /\ \E t \in Tasks : task[t].pc = "tokenizing"

\* C29: from the moment the client is ready until cleanup(), deviceSessionId
\* keeps its value and initialized stays true, and no attempt calls the
\* device-session setup again.
C29_SessionStable ==
    [][Ready =>
         /\ \/ initialized' /\ deviceSessionId' = deviceSessionId
            \/ ~initialized' /\ deviceSessionId' = "" /\ healthCheckInterval' = "cleared"
         /\ \A t \in Tasks :
               ~(/\ task'[t].retryCount # task[t].retryCount
                 /\ task'[t].attemptError = ErrSession)]_vars

\* C30: with no formId configured, device-session setup leaves the forms of
\* the document as they were: a form that was there is still there, and a
\* form made for the call is gone, whether the vendor's setup returns or
\* throws.
C30_FormsUnchanged ==
    (fn.op = "setupDeviceSession" /\ fn.done /\ ~fn.configured)
        => fn.out.formInDocument = fn.exists

\* C31: after cleanup() the health check is over for good: the interval stays
\* cleared and no tick starts an initialize() (one that starts comes from the
\* retry timer), while a createToken or validate call made on the reset
\* client starts a sequence of its own, which can make the client ready.
C31_HealthCheckEnded ==
    [][healthCheckInterval = "cleared" =>
         /\ healthCheckInterval' = "cleared"
         /\ \A t \in Tasks :
               (Idle(t) /\ task'[t].kind = "initialize")
                   => retryTimeout = "pending" /\ retryTimeout' = "none"
         /\ \A t \in Tasks :
               (NotReady /\ Idle(t) /\ task'[t].kind = "awaiting")
                   => task'[t].attempts >= 1 \/ Ready']_vars

\* After cleanup(), a call has appended the script tags again and has made
\* the client ready, with the health check cleared and no timer armed.
C31_Witness ==
    /\ healthCheckInterval = "cleared"
    /\ retryTimeout = "none"
    /\ Ready
    /\ \A s \in OPENPAY_SCRIPTS : dom[s] = 1
    /\ \E t \in Tasks :
          /\ task[t].kind = "awaiting"
          /\ task[t].pc = "resume"
          /\ task[t].res = "ok"
          /\ \A u \in Tasks \ {t} : Idle(u)

====
